---- MODULE Spec2Model ----
(***************************************************************************)
(* Model of the ra_assists handlers of number_representation.rs and        *)
(* split_string.rs.  A behaviour starts from one buffer snapshot holding   *)
(* one token of interest (" " token ";"), with a selection, and runs the   *)
(* handlers on it; or it starts from a direct call of separate_number, as  *)
(* the unit test test_separate_number makes; or from the assists the       *)
(* handler table found, which resolved_assists puts in order.              *)
(* Characters are one-character strings, texts are sequences of them,      *)
(* offsets are 0-based as TextUnit is, ranges are <<start, end>>.          *)
(***************************************************************************)
EXTENDS Integers, Sequences, FiniteSets, TLC

VARIABLES
    mode,         \* "assist": a handler run on a buffer; "group": a direct call of separate_number;
                  \* "resolve": a call of resolved_assists
    pc,           \* "idle" | "offered" (a handler returned) | "applied" (the edit was applied)
    buffer,       \* text of the file
    token_range,  \* range of the token of interest in buffer
    token_kind,   \* SyntaxKind of that token
    suffix_len,   \* length of the suffix LiteralKind::IntNumber reports (0: None)
    ancestor,     \* token.syntax().ancestors().nth(1), as seen by split_string
    selection,    \* ctx.frange.range
    handler,      \* the handler that ran last
    assist,       \* what it returned (Option<Assist>, resolved)
    cursor,       \* caret after the edit was applied (-1: none)
    stdout,       \* lines written to the standard output
    sn_text,      \* group mode: argument text of separate_number
    sn_every,     \* group mode: argument every of separate_number
    sn_result,    \* group mode: the returned string
    identified,   \* what identify_number_literal returned to separate_number_literal
    last_applied, \* the handler whose edit was applied last ("none": no edit applied yet)
    found,        \* resolve mode: the assists of the handlers, in the order of the handler table
    resolved      \* resolve mode: what resolved_assists returned

vars == <<mode, pc, buffer, token_range, token_kind, suffix_len, ancestor, selection,
          handler, assist, cursor, stdout, sn_text, sn_every, sn_result,
          identified, last_applied, found, resolved>>

----
\* Bounds of the model.
MaxDigits == 10   \* longest digit text (separators included) of a literal
MaxSeps == 2      \* most separators in the digit text of an initial literal
MaxSelLen == 2    \* longest selection
MaxStr == 3       \* longest string content
MaxLen == 6       \* longest text passed directly to separate_number
MaxEvery == 4     \* largest group size passed directly to separate_number
MaxHandlers == 4  \* entries of the handler table in a call of resolved_assists
MaxTarget == 2    \* longest target range of an assist in a call of resolved_assists

----
\* Option<T>
NoneOpt == [some |-> FALSE, val |-> <<>>]
Some(v) == [some |-> TRUE, val |-> v]

\* TextRange
range_len(r) == r[2] - r[1]
is_subrange(a, b) == b[1] <= a[1] /\ a[2] <= b[2]
text_of(buf, r) == SubSeq(buf, r[1] + 1, r[2])

----
\* number_representation.rs

\* variant: the separators are kept
remove_separator_from_string_kept(str) == str

remove_separator_from_string(str) == SelectSeq(str, LAMBDA c : c # "_")

RECURSIVE separate_number_loop(_, _, _, _, _)
separate_number_loop(without_separators, every, offset, i, result) ==
    IF i >= Len(without_separators) THEN result
    ELSE LET c == without_separators[i + 1]
             pushed == IF (i # 0) /\ ((i + offset) % every = 0)
                       THEN Append(result, "_") ELSE result
         IN separate_number_loop(without_separators, every, offset, i + 1, Append(pushed, c))

\* variant: the loop stops one character short
separate_number_short(text, every) ==
    LET without_separators == remove_separator_from_string(text)
        len == Len(without_separators)
        offset == every - (len % every)
    IN separate_number_loop(SubSeq(without_separators, 1, len - 1), every, offset, 0, <<>>)

\* variant: groups counted from the left
separate_number_left(text, every) ==
    LET without_separators == remove_separator_from_string(text)
        len == Len(without_separators)
        offset == every
    IN separate_number_loop(without_separators, every, offset, 0, <<>>)

\* variant: the offset is the remainder itself
separate_number_remainder(text, every) ==
    LET without_separators == remove_separator_from_string(text)
        len == Len(without_separators)
        offset == len % every
    IN separate_number_loop(without_separators, every, offset, 0, <<>>)

separate_number(text, every) ==
    LET without_separators == remove_separator_from_string(text)
        len == Len(without_separators)
        offset == every - (len % every)
    IN separate_number_loop(without_separators, every, offset, 0, <<>>)

\* NumberLiteral and its Display implementation
NumberLiteral(number_type, suffix, prefix, text) ==
    [number_type |-> number_type, suffix |-> suffix, prefix |-> prefix, text |-> text]

\* variant: the suffix is not written
NumberLiteral_fmt_no_suffix(self) ==
    (IF self.prefix.some THEN self.prefix.val ELSE <<>>) \o self.text

NumberLiteral_fmt(self) ==
    (IF self.prefix.some THEN self.prefix.val ELSE <<>>)
    \o self.text
    \o (IF self.suffix.some THEN self.suffix.val ELSE <<>>)

\* variant: the uppercase prefix 0X is recognised too
identify_number_literal_any_case(kind, full_text, sfx_len) ==
    IF kind # "INT_NUMBER" THEN NoneOpt
    ELSE
        LET suffix_clone == IF sfx_len = 0 THEN NoneOpt
                            ELSE Some(SubSeq(full_text, Len(full_text) - sfx_len + 1, Len(full_text)))
            non_suffix == SubSeq(full_text, 1, Len(full_text) - sfx_len)
            maybe_prefix == IF Len(non_suffix) < 2 THEN NoneOpt ELSE Some(SubSeq(non_suffix, 1, 2))
            is_prefix == maybe_prefix.some /\ maybe_prefix.val \in {<<"0", "x">>, <<"0", "b">>, <<"0", "o">>, <<"0", "X">>}
            prefix == IF is_prefix THEN maybe_prefix ELSE NoneOpt
            number_type == IF ~is_prefix THEN "Decimal"
                           ELSE IF maybe_prefix.val = <<"0", "x">> THEN "PrefixHex"
                           ELSE IF maybe_prefix.val = <<"0", "b">> THEN "PrefixBinary"
                           ELSE "PrefixOctal"
            prefix_len == IF prefix.some THEN Len(prefix.val) ELSE 0
            text == SubSeq(non_suffix, prefix_len + 1, Len(non_suffix))
        IN Some(NumberLiteral(number_type, suffix_clone, prefix, text))

identify_number_literal(kind, full_text, sfx_len) ==
    IF kind # "INT_NUMBER" THEN NoneOpt
    ELSE
        LET suffix_clone == IF sfx_len = 0 THEN NoneOpt
                            ELSE Some(SubSeq(full_text, Len(full_text) - sfx_len + 1, Len(full_text)))
            non_suffix == SubSeq(full_text, 1, Len(full_text) - sfx_len)
            maybe_prefix == IF Len(non_suffix) < 2 THEN NoneOpt ELSE Some(SubSeq(non_suffix, 1, 2))
            is_prefix == maybe_prefix.some /\ maybe_prefix.val \in {<<"0", "x">>, <<"0", "b">>, <<"0", "o">>}
            prefix == IF is_prefix THEN maybe_prefix ELSE NoneOpt
            number_type == IF ~is_prefix THEN "Decimal"
                           ELSE IF maybe_prefix.val = <<"0", "x">> THEN "PrefixHex"
                           ELSE IF maybe_prefix.val = <<"0", "b">> THEN "PrefixBinary"
                           ELSE "PrefixOctal"
            prefix_len == IF prefix.some THEN Len(prefix.val) ELSE 0
            text == SubSeq(non_suffix, prefix_len + 1, Len(non_suffix))
        IN Some(NumberLiteral(number_type, suffix_clone, prefix, text))

is_int_number(kind) == kind = "INT_NUMBER"

\* variant: octal literals grouped like decimal ones
get_separate_number_details_octal(literal) ==
    CASE literal.number_type \in {"Decimal", "PrefixOctal"} ->
            Some([id |-> "separate_decimal_thousands", label |-> "Separate thousands", every |-> 3])
      [] literal.number_type = "PrefixHex" ->
            Some([id |-> "separate_hexadecimal_word", label |-> "Separate 16-bits words", every |-> 4])
      [] literal.number_type = "PrefixBinary" ->
            Some([id |-> "separate_binary_bytes", label |-> "Separate bytes", every |-> 8])
      [] OTHER -> NoneOpt

\* SeparateNumberDetails per literal type; None for octal
get_separate_number_details(literal) ==
    CASE literal.number_type = "Decimal" ->
            Some([id |-> "separate_decimal_thousands", label |-> "Separate thousands", every |-> 3])
      [] literal.number_type = "PrefixHex" ->
            Some([id |-> "separate_hexadecimal_word", label |-> "Separate 16-bits words", every |-> 4])
      [] literal.number_type = "PrefixBinary" ->
            Some([id |-> "separate_binary_bytes", label |-> "Separate bytes", every |-> 8])
      [] OTHER -> NoneOpt

----
\* The context a handler gets, and what it gives back.
LiteralKinds == {"INT_NUMBER", "FLOAT_NUMBER", "STRING"}

AssistCtx(buf, range, tr, kind, sfx, anc) ==
    [buffer |-> buf, frange |-> range, token_range |-> tr, token_kind |-> kind,
     suffix_len |-> sfx, ancestor |-> anc]

token_text(ctx) == text_of(ctx.buffer, ctx.token_range)

\* the ast::Literal node covering the selection, if any
find_covering_node_at_offset_Literal(ctx) ==
    ctx.token_kind \in LiteralKinds /\ is_subrange(ctx.frange, ctx.token_range)

\* the token of the given kind covering the selection, if any
find_covering_token_at_offset(ctx, kind) ==
    ctx.token_kind = kind /\ is_subrange(ctx.frange, ctx.token_range)

NoAssist == [applicable |-> FALSE, id |-> "", label |-> "", target |-> NoneOpt,
             edits |-> <<>>, cursor |-> NoneOpt]

\* ctx.add_assist(id, label, |edit| ...) in resolved mode
add_assist(id, label, target, edits, cursor_position) ==
    [applicable |-> TRUE, id |-> id, label |-> label, target |-> target,
     edits |-> edits, cursor |-> cursor_position]

\* ActionBuilder::replace / insert
replace(range, text) == [delete |-> range, insert |-> text]
insert(offset, text) == [delete |-> <<offset, offset>>, insert |-> text]

\* variant: no check that the text has a separator
remove_digit_separators_unchecked(ctx) ==
    IF ~find_covering_node_at_offset_Literal(ctx) THEN NoAssist
    ELSE IF ~is_int_number(ctx.token_kind) THEN NoAssist
    ELSE add_assist("remove_digit_separators", "Remove digit separators",
                    Some(ctx.token_range),
                    <<replace(ctx.token_range, remove_separator_from_string(token_text(ctx)))>>,
                    NoneOpt)

\* variant: only the text before the suffix is written back
remove_digit_separators_no_suffix(ctx) ==
    IF ~find_covering_node_at_offset_Literal(ctx) THEN NoAssist
    ELSE IF ~is_int_number(ctx.token_kind) THEN NoAssist
    ELSE IF ~(\E i \in DOMAIN token_text(ctx) : token_text(ctx)[i] = "_") THEN NoAssist
    ELSE add_assist("remove_digit_separators", "Remove digit separators",
                    Some(ctx.token_range),
                    <<replace(ctx.token_range,
                              remove_separator_from_string(
                                  SubSeq(token_text(ctx), 1, Len(token_text(ctx)) - ctx.suffix_len)))>>,
                    NoneOpt)

remove_digit_separators(ctx) ==
    IF ~find_covering_node_at_offset_Literal(ctx) THEN NoAssist
    ELSE IF ~is_int_number(ctx.token_kind) THEN NoAssist
    ELSE IF ~(\E i \in DOMAIN token_text(ctx) : token_text(ctx)[i] = "_") THEN NoAssist
    ELSE add_assist("remove_digit_separators", "Remove digit separators",
                    Some(ctx.token_range),
                    <<replace(ctx.token_range, remove_separator_from_string(token_text(ctx)))>>,
                    NoneOpt)

\* variant: the result is compared with the text without its separators
separate_number_literal_stripped(ctx) ==
    IF ~find_covering_node_at_offset_Literal(ctx) THEN NoAssist
    ELSE LET number_literal == identify_number_literal(ctx.token_kind, token_text(ctx), ctx.suffix_len)
         IN IF ~number_literal.some THEN NoAssist
            ELSE LET details == get_separate_number_details(number_literal.val)
                 IN IF ~details.some THEN NoAssist
                    ELSE IF Len(number_literal.val.text) < details.val.every THEN NoAssist
                    ELSE LET result == separate_number(number_literal.val.text, details.val.every)
                         IN IF result = remove_separator_from_string(number_literal.val.text) THEN NoAssist
                            ELSE LET new_literal == [number_literal.val EXCEPT !.text = result]
                                 IN add_assist(details.val.id, details.val.label,
                                               Some(ctx.token_range),
                                               <<replace(ctx.token_range, NumberLiteral_fmt(new_literal))>>,
                                               NoneOpt)

\* variant: the result is not compared with the current text
separate_number_literal_always(ctx) ==
    IF ~find_covering_node_at_offset_Literal(ctx) THEN NoAssist
    ELSE LET number_literal == identify_number_literal(ctx.token_kind, token_text(ctx), ctx.suffix_len)
         IN IF ~number_literal.some THEN NoAssist
            ELSE LET details == get_separate_number_details(number_literal.val)
                 IN IF ~details.some THEN NoAssist
                    ELSE IF Len(number_literal.val.text) < details.val.every THEN NoAssist
                    ELSE LET result == separate_number(number_literal.val.text, details.val.every)
                             new_literal == [number_literal.val EXCEPT !.text = result]
                         IN add_assist(details.val.id, details.val.label,
                                       Some(ctx.token_range),
                                       <<replace(ctx.token_range, NumberLiteral_fmt(new_literal))>>,
                                       NoneOpt)

separate_number_literal(ctx) ==
    IF ~find_covering_node_at_offset_Literal(ctx) THEN NoAssist
    ELSE LET number_literal == identify_number_literal(ctx.token_kind, token_text(ctx), ctx.suffix_len)
         IN IF ~number_literal.some THEN NoAssist
            ELSE LET details == get_separate_number_details(number_literal.val)
                 IN IF ~details.some THEN NoAssist
                    ELSE IF Len(number_literal.val.text) < details.val.every THEN NoAssist
                    ELSE LET result == separate_number(number_literal.val.text, details.val.every)
                         IN IF result = number_literal.val.text THEN NoAssist
                            ELSE LET new_literal == [number_literal.val EXCEPT !.text = result]
                                 IN add_assist(details.val.id, details.val.label,
                                               Some(ctx.token_range),
                                               <<replace(ctx.token_range, NumberLiteral_fmt(new_literal))>>,
                                               NoneOpt)

\* the println! calls separate_number_literal and separate_number make on the way
separate_number_literal_stdout(ctx) ==
    IF ~find_covering_node_at_offset_Literal(ctx) THEN <<>>
    ELSE LET number_literal == identify_number_literal(ctx.token_kind, token_text(ctx), ctx.suffix_len)
         IN IF ~number_literal.some THEN <<"literal">>
            ELSE LET details == get_separate_number_details(number_literal.val)
                 IN IF ~details.some THEN <<"literal", "number_literal">>
                    ELSE IF Len(number_literal.val.text) < details.val.every
                         THEN <<"literal", "number_literal", "details">>
                         ELSE <<"literal", "number_literal", "details", "len">>

----
\* TextEditBuilder / TextEdit

\* atoms ordered by (delete.start, delete.end), equal keys keep their order
atom_le(a, b) == a.delete[1] < b.delete[1] \/ (a.delete[1] = b.delete[1] /\ a.delete[2] <= b.delete[2])

RECURSIVE insert_sorted(_, _)
insert_sorted(sorted, a) ==
    IF sorted = <<>> THEN <<a>>
    ELSE IF atom_le(sorted[Len(sorted)], a) THEN Append(sorted, a)
    ELSE Append(insert_sorted(SubSeq(sorted, 1, Len(sorted) - 1), a), sorted[Len(sorted)])

RECURSIVE finish(_)
finish(atoms) ==
    IF atoms = <<>> THEN <<>>
    ELSE insert_sorted(finish(SubSeq(atoms, 1, Len(atoms) - 1)), atoms[Len(atoms)])

\* TextEdit::apply on sorted, disjoint atoms
RECURSIVE apply(_, _)
apply(atoms, text) ==
    IF atoms = <<>> THEN text
    ELSE LET a == atoms[Len(atoms)]
             patched == SubSeq(text, 1, a.delete[1]) \o a.insert \o SubSeq(text, a.delete[2] + 1, Len(text))
         IN apply(SubSeq(atoms, 1, Len(atoms) - 1), patched)

\* TextEdit::apply_to_offset: None when the offset is inside a deleted range
RECURSIVE apply_to_offset_from(_, _, _, _)
apply_to_offset_from(atoms, i, offset, res) ==
    IF i > Len(atoms) THEN Some(res)
    ELSE IF atoms[i].delete[1] >= offset THEN Some(res)
    ELSE IF offset < atoms[i].delete[2] THEN NoneOpt
    ELSE apply_to_offset_from(atoms, i + 1, offset, res + Len(atoms[i].insert) - range_len(atoms[i].delete))

apply_to_offset(atoms, offset) == apply_to_offset_from(atoms, 1, offset, offset)

----
\* split_string.rs
CONCAT_MACRO == <<"c", "o", "n", "c", "a", "t", "!", "(">>
SPLIT_SEPARATOR == <<"\"", ",", " ", "\"">>
PLUS_OFFSET == 2

\* HasQuotes::text_range_between_quotes: between the first and the last quote of the token
text_range_between_quotes(ctx) ==
    LET text == token_text(ctx)
        quotes == {i \in DOMAIN text : text[i] = "\""}
    IN IF quotes = {} THEN NoneOpt
       ELSE LET left == CHOOSE i \in quotes : \A j \in quotes : i <= j
                right == CHOOSE i \in quotes : \A j \in quotes : j <= i
            IN IF left = right THEN NoneOpt
               ELSE Some(<<ctx.token_range[1] + left, ctx.token_range[1] + right - 1>>)

\* variant: any enclosing macro call is taken for the concatenation
need_macro_any_call(anc) ==
    IF anc.kind = "NONE" THEN TRUE
    ELSE anc.kind # "MACRO_CALL"

need_macro(anc) ==
    IF anc.kind = "NONE" THEN TRUE
    ELSE IF anc.kind = "MACRO_CALL"
         THEN LET macro_name == IF anc.path.some THEN anc.path.val ELSE ""
              IN macro_name # "concat"
         ELSE TRUE

\* variant: the selected text is replaced by the boundary text
split_string_edit_replacing(ctx) ==
    LET sel == ctx.frange
        tok_range == ctx.token_range
        macro == need_macro(ctx.ancestor)
        e1 == IF macro THEN <<insert(tok_range[1], CONCAT_MACRO)>> ELSE <<>>
        e3 == Append(e1, replace(sel, SPLIT_SEPARATOR))
        selection_end == apply_to_offset(finish(e3), sel[2]).val
        e4 == IF macro THEN Append(e3, insert(tok_range[2], <<")">>)) ELSE e3
    IN add_assist("split_string", "Split string", Some(tok_range), finish(e4),
                  Some(selection_end + PLUS_OFFSET))

\* variant: the caret is computed from the offset in the old text
split_string_edit_untranslated(ctx) ==
    LET sel == ctx.frange
        tok_range == ctx.token_range
        macro == need_macro(ctx.ancestor)
        e1 == IF macro THEN <<insert(tok_range[1], CONCAT_MACRO)>> ELSE <<>>
        e2 == Append(e1, insert(sel[1], SPLIT_SEPARATOR))
        e3 == IF sel[1] # sel[2] THEN Append(e2, insert(sel[2], SPLIT_SEPARATOR)) ELSE e2
        e4 == IF macro THEN Append(e3, insert(tok_range[2], <<")">>)) ELSE e3
    IN add_assist("split_string", "Split string", Some(tok_range), finish(e4),
                  Some(sel[2] + PLUS_OFFSET))

\* the edit closure of split_string
split_string_edit(ctx) ==
    LET sel == ctx.frange
        tok_range == ctx.token_range
        macro == need_macro(ctx.ancestor)
        e1 == IF macro THEN <<insert(tok_range[1], CONCAT_MACRO)>> ELSE <<>>
        e2 == Append(e1, insert(sel[1], SPLIT_SEPARATOR))
        e3 == IF sel[1] # sel[2] THEN Append(e2, insert(sel[2], SPLIT_SEPARATOR)) ELSE e2
        selection_end == apply_to_offset(finish(e3), sel[2]).val
        e4 == IF macro THEN Append(e3, insert(tok_range[2], <<")">>)) ELSE e3
    IN add_assist("split_string", "Split string", Some(tok_range), finish(e4),
                  Some(selection_end + PLUS_OFFSET))

\* variant: the selection is checked against the whole token
split_string_whole_token(ctx) ==
    IF ~find_covering_token_at_offset(ctx, "STRING") THEN NoAssist
    ELSE IF ~text_range_between_quotes(ctx).some THEN NoAssist
    ELSE IF ~is_subrange(ctx.frange, ctx.token_range) THEN NoAssist
    ELSE split_string_edit(ctx)

\* variant: a selection touching a quote is refused
split_string_strict(ctx) ==
    IF ~find_covering_token_at_offset(ctx, "STRING") THEN NoAssist
    ELSE LET between_quotes == text_range_between_quotes(ctx)
         IN IF ~between_quotes.some THEN NoAssist
            ELSE IF ~(between_quotes.val[1] < ctx.frange[1] /\ ctx.frange[2] < between_quotes.val[2])
                 THEN NoAssist
            ELSE split_string_edit(ctx)

split_string(ctx) ==
    IF ~find_covering_token_at_offset(ctx, "STRING") THEN NoAssist
    ELSE LET between_quotes == text_range_between_quotes(ctx)
         IN IF ~between_quotes.some THEN NoAssist
            ELSE IF ~is_subrange(ctx.frange, between_quotes.val) THEN NoAssist
            ELSE split_string_edit(ctx)

\* the println! calls of the edit closure of split_string
split_string_stdout(ctx) ==
    IF ~split_string(ctx).applicable THEN <<>>
    ELSE IF ctx.ancestor.kind = "MACRO_CALL" THEN <<"ancestor", "macro_name">>
    ELSE <<"ancestor">>

----
\* lib.rs: resolved_assists
\* TextUnit::from(!0u32) is 4294967295, the largest TextUnit; the largest integer of
\* the model checker stands for it, above every target length as !0u32 is
U32_MAX == 2147483647

\* variant: an assist without target gets the smallest key
target_key_zero(it) == IF it.action.target.some THEN range_len(it.action.target.val) ELSE 0

\* the sort key: the length of the target, !0u32 without target
target_key(it) == IF it.action.target.some THEN range_len(it.action.target.val) ELSE U32_MAX

\* slice::sort_by_key: stable
RECURSIVE sort_insert(_, _)
sort_insert(sorted, it) ==
    IF sorted = <<>> THEN <<it>>
    ELSE IF target_key(sorted[Len(sorted)]) <= target_key(it) THEN Append(sorted, it)
    ELSE Append(sort_insert(SubSeq(sorted, 1, Len(sorted) - 1), it), sorted[Len(sorted)])

RECURSIVE sort_by_key(_)
sort_by_key(a) ==
    IF a = <<>> THEN <<>>
    ELSE sort_insert(sort_by_key(SubSeq(a, 1, Len(a) - 1)), a[Len(a)])

resolved_assists(a) == sort_by_key(a)

----
\* Inputs: the token of interest, its context and the selection.
Pre == <<" ">>
Post == <<";">>

Heads == {<<>>, <<"0", "x">>, <<"0", "b">>, <<"0", "o">>, <<"0", "X">>}
Suffixes == {<<>>, <<"u", "8">>}

Bodies ==
    {b \in UNION {[1..n -> {"1", "_"}] : n \in 0..MaxDigits} :
        Cardinality({i \in DOMAIN b : b[i] = "_"}) <= MaxSeps}

\* an integer literal token starts with a digit
IntTokens ==
    {[kind |-> "INT_NUMBER", text |-> h \o b \o s, suffix_len |-> Len(s), ancestor |-> [kind |-> "LET_STMT", path |-> NoneOpt]] :
        <<h, b, s>> \in {t \in Heads \X Bodies \X Suffixes : t[1] # <<>> \/ (t[2] # <<>> /\ t[2][1] # "_")}}

OtherTokens ==
    {[kind |-> "FLOAT_NUMBER", text |-> <<"1", "_", "1", ".", "5">>, suffix_len |-> 0, ancestor |-> [kind |-> "LET_STMT", path |-> NoneOpt]],
     [kind |-> "FLOAT_NUMBER", text |-> <<"1", ".", "5">>, suffix_len |-> 0, ancestor |-> [kind |-> "LET_STMT", path |-> NoneOpt]],
     [kind |-> "IDENT", text |-> <<"x", "_", "1">>, suffix_len |-> 0, ancestor |-> [kind |-> "LET_STMT", path |-> NoneOpt]]}

Ancestors ==
    {[kind |-> "NONE", path |-> NoneOpt],
     [kind |-> "LET_STMT", path |-> NoneOpt],
     [kind |-> "MACRO_CALL", path |-> Some("concat")],
     [kind |-> "MACRO_CALL", path |-> Some("println")],
     [kind |-> "MACRO_CALL", path |-> NoneOpt]}

StringTokens ==
    {[kind |-> "STRING", text |-> <<"\"">> \o c \o <<"\"">>, suffix_len |-> 0, ancestor |-> a] :
        <<c, a>> \in (UNION {[1..n -> {"a", "b"}] : n \in 0..MaxStr}) \X Ancestors}

Tokens == IntTokens \cup OtherTokens \cup StringTokens

Selections(buf) ==
    {<<s, e>> : <<s, e>> \in {r \in (0..Len(buf)) \X (0..Len(buf)) : r[1] <= r[2] /\ r[2] - r[1] <= MaxSelLen}}

\* the assists of the handler table: handler i of the table returned one with
\* target t[i] when i is in the set applicable
Targets == {NoneOpt} \cup {Some(<<1, 1 + l>>) : l \in 0..MaxTarget}

RECURSIVE Collect(_, _, _)
Collect(i, applicable, t) ==
    IF i = 0 THEN <<>>
    ELSE IF i \in applicable
         THEN Append(Collect(i - 1, applicable, t), [id |-> i, action |-> [target |-> t[i]]])
         ELSE Collect(i - 1, applicable, t)

FoundLists ==
    {Collect(MaxHandlers, at[1], at[2]) :
        at \in (SUBSET (1..MaxHandlers)) \X [1..MaxHandlers -> Targets]}

GroupTexts == UNION {[1..n -> {"1", "2", "_"}] : n \in 0..MaxLen}

----
InitAssist ==
    \E t \in Tokens :
        /\ mode = "assist"
        /\ buffer = Pre \o t.text \o Post
        /\ token_range = <<Len(Pre), Len(Pre) + Len(t.text)>>
        /\ token_kind = t.kind
        /\ suffix_len = t.suffix_len
        /\ ancestor = t.ancestor
        /\ selection \in Selections(Pre \o t.text \o Post)
        /\ sn_text = <<>>
        /\ sn_every = 1
        /\ found = <<>>

InitGroup ==
    /\ mode = "group"
    /\ buffer = <<>>
    /\ token_range = <<0, 0>>
    /\ token_kind = "NONE"
    /\ suffix_len = 0
    /\ ancestor = [kind |-> "NONE", path |-> NoneOpt]
    /\ selection = <<0, 0>>
    /\ sn_text \in GroupTexts
    /\ sn_every \in 1..MaxEvery
    /\ found = <<>>

InitResolve ==
    /\ mode = "resolve"
    /\ buffer = <<>>
    /\ token_range = <<0, 0>>
    /\ token_kind = "NONE"
    /\ suffix_len = 0
    /\ ancestor = [kind |-> "NONE", path |-> NoneOpt]
    /\ selection = <<0, 0>>
    /\ sn_text = <<>>
    /\ sn_every = 1
    /\ found \in FoundLists

Init ==
    /\ InitAssist \/ InitGroup \/ InitResolve
    /\ pc = "idle"
    /\ handler = "none"
    /\ assist = NoAssist
    /\ cursor = -1
    /\ stdout = <<>>
    /\ sn_result = <<>>
    /\ identified = NoneOpt
    /\ last_applied = "none"
    /\ resolved = <<>>

Ctx == AssistCtx(buffer, selection, token_range, token_kind, suffix_len, ancestor)

\* a handler runs on the snapshot and returns
Offer(name, result, lines, literal) ==
    /\ mode = "assist"
    /\ pc = "idle"
    /\ pc' = "offered"
    /\ handler' = name
    /\ assist' = result
    /\ stdout' = stdout \o lines
    /\ identified' = literal
    /\ UNCHANGED <<mode, buffer, token_range, token_kind, suffix_len, ancestor, selection,
                   cursor, sn_text, sn_every, sn_result, last_applied, found, resolved>>

RemoveDigitSeparators ==
    Offer("remove_digit_separators", remove_digit_separators(Ctx), <<>>, identified)

SeparateNumberLiteral ==
    Offer("separate_number_literal", separate_number_literal(Ctx), separate_number_literal_stdout(Ctx),
          IF find_covering_node_at_offset_Literal(Ctx)
          THEN identify_number_literal(token_kind, token_text(Ctx), suffix_len)
          ELSE NoneOpt)

SplitString ==
    Offer("split_string", split_string(Ctx), split_string_stdout(Ctx), identified)

\* the driver applies the edit of the returned assist and places the caret
ApplyEdit ==
    /\ mode = "assist"
    /\ pc = "offered"
    /\ assist.applicable
    /\ pc' = "applied"
    /\ buffer' = apply(assist.edits, buffer)
    /\ token_range' = <<token_range[1], token_range[2] + Len(buffer') - Len(buffer)>>
    /\ cursor' = IF assist.cursor.some THEN assist.cursor.val
                 ELSE IF selection[1] = selection[2] /\ apply_to_offset(assist.edits, selection[1]).some
                      THEN apply_to_offset(assist.edits, selection[1]).val
                      ELSE -1
    /\ last_applied' = handler
    /\ UNCHANGED <<mode, token_kind, suffix_len, ancestor, selection, handler, assist, stdout,
                   sn_text, sn_every, sn_result, identified, found, resolved>>

\* a new request on the edited buffer, from a caret: the literal is still one token
\* with the same suffix
Reselect ==
    /\ mode = "assist"
    /\ pc = "applied"
    /\ token_kind = "INT_NUMBER"
    /\ pc' = "idle"
    /\ selection' \in {<<o, o>> : o \in 0..Len(buffer)}
    /\ handler' = "none"
    /\ assist' = NoAssist
    /\ cursor' = -1
    /\ stdout' = <<>>
    /\ identified' = NoneOpt
    /\ UNCHANGED <<mode, buffer, token_range, token_kind, suffix_len, ancestor,
                   sn_text, sn_every, sn_result, last_applied, found, resolved>>

\* a direct call separate_number(text, every)
SeparateNumber ==
    /\ mode = "group"
    /\ pc = "idle"
    /\ pc' = "returned"
    /\ sn_result' = separate_number(sn_text, sn_every)
    /\ stdout' = Append(stdout, "len")
    /\ UNCHANGED <<mode, buffer, token_range, token_kind, suffix_len, ancestor, selection,
                   handler, assist, cursor, sn_text, sn_every,
                   identified, last_applied, found, resolved>>

\* a call of resolved_assists: the assists found are put in order
ResolvedAssists ==
    /\ mode = "resolve"
    /\ pc = "idle"
    /\ pc' = "returned"
    /\ resolved' = resolved_assists(found)
    /\ UNCHANGED <<mode, buffer, token_range, token_kind, suffix_len, ancestor, selection,
                   handler, assist, cursor, stdout, sn_text, sn_every, sn_result,
                   identified, last_applied, found>>

Next ==
    \/ RemoveDigitSeparators
    \/ SeparateNumberLiteral
    \/ SplitString
    \/ ApplyEdit
    \/ Reselect
    \/ SeparateNumber
    \/ ResolvedAssists

Spec == Init /\ [][Next]_vars

----
\* Helpers of the properties.
HasSeparator(str) == \E i \in DOMAIN str : str[i] = "_"

\* the groups of a grouped text: the runs between separators
RECURSIVE Split(_)
Split(str) ==
    IF ~HasSeparator(str) THEN <<str>>
    ELSE LET k == CHOOSE i \in DOMAIN str : str[i] = "_" /\ \A j \in 1..(i - 1) : str[j] # "_"
         IN <<SubSeq(str, 1, k - 1)>> \o Split(SubSeq(str, k + 1, Len(str)))

Returned == mode = "group" /\ pc = "returned"

----
\* C1: grouping is idempotent: grouping again the stripped result of
\* separate_number(d, g) gives the same result, for every text d and g > 0.
C1_Idempotent ==
    Returned => separate_number(remove_separator_from_string(sn_result), sn_every) = sn_result

C1_Witness ==
    Returned /\ HasSeparator(sn_text) /\ HasSeparator(sn_result) /\ sn_result # sn_text

\* C2: grouping never alters digits: the result of separate_number(d, g) without
\* its separators is d without its separators.
C2_DigitsKept ==
    Returned => SelectSeq(sn_result, LAMBDA c : c # "_") = SelectSeq(sn_text, LAMBDA c : c # "_")

C2_Witness ==
    /\ Returned /\ HasSeparator(sn_result)
    /\ \E i, j \in DOMAIN sn_text : sn_text[i] = "1" /\ sn_text[j] = "2"

\* C3: grouping is right-aligned: the result has no leading, trailing or doubled
\* separator, every group but the leftmost has exactly g digits, the leftmost has
\* n mod g digits (g when n mod g = 0), there is no separator when n <= g, and the
\* result is empty when n = 0 (n: the number of non-separator characters of d).
C3_RightAligned ==
    Returned =>
        LET n == Cardinality({i \in DOMAIN sn_text : sn_text[i] # "_"})
            g == sn_every
            r == sn_result
            groups == Split(r)
        IN /\ n = 0 => r = <<>>
           /\ n <= g => ~HasSeparator(r)
           /\ n > 0 =>
                /\ r[1] # "_" /\ r[Len(r)] # "_"
                /\ \A i \in 1..(Len(r) - 1) : ~(r[i] = "_" /\ r[i + 1] = "_")
                /\ \A k \in 2..Len(groups) : Len(groups[k]) = g
                /\ Len(groups[1]) = (IF n % g = 0 THEN g ELSE n % g)

C3_Witness ==
    /\ Returned /\ sn_every = 3
    /\ Cardinality({i \in DOMAIN sn_text : sn_text[i] # "_"}) = 5
    /\ Len(Split(sn_result)) = 2

----
\* The literal of the snapshot, decomposed by hand for the properties.
Offered(h) == mode = "assist" /\ pc = "offered" /\ handler = h
Covered == token_range[1] <= selection[1] /\ selection[2] <= token_range[2]
TokenText == SubSeq(buffer, token_range[1] + 1, token_range[2])
RawSuffix == SubSeq(TokenText, Len(TokenText) - suffix_len + 1, Len(TokenText))
RawNonSuffix == SubSeq(TokenText, 1, Len(TokenText) - suffix_len)
RawPrefix ==
    IF Len(RawNonSuffix) >= 2 /\ RawNonSuffix[1] = "0" /\ RawNonSuffix[2] \in {"x", "b", "o"}
    THEN <<RawNonSuffix[1], RawNonSuffix[2]>> ELSE <<>>
RawDigits == SubSeq(RawNonSuffix, Len(RawPrefix) + 1, Len(RawNonSuffix))
Stripped(str) == SelectSeq(str, LAMBDA c : c # "_")
\* Decimal 3, Hex 4, Binary 8, Octal none
GroupSize ==
    IF RawPrefix = <<>> THEN 3
    ELSE IF RawPrefix[2] = "x" THEN 4
    ELSE IF RawPrefix[2] = "b" THEN 8
    ELSE 0

----
\* C4: no-op suppression: separate_number_literal is not applicable to an integer
\* literal whose digit text already equals its grouped form for its kind.
C4_NoOpSuppressed ==
    (/\ Offered("separate_number_literal") /\ token_kind = "INT_NUMBER" /\ GroupSize > 0
     /\ RawDigits = separate_number(Stripped(RawDigits), GroupSize))
        => ~assist.applicable

C4_Witness ==
    /\ Offered("separate_number_literal") /\ token_kind = "INT_NUMBER" /\ Covered
    /\ GroupSize = 4 /\ HasSeparator(RawDigits)
    /\ RawDigits = separate_number(Stripped(RawDigits), GroupSize)
    /\ ~assist.applicable

\* C5 (as claimed): separate_number_literal is applicable only when the number of
\* digits left after removing the separators exceeds the group size of the kind.
C5_OnlyAboveGroupSize ==
    (Offered("separate_number_literal") /\ assist.applicable)
        => Len(Stripped(RawDigits)) > GroupSize

\* C6: octal exclusion: separate_number_literal is never applicable to a literal
\* with prefix 0o, whatever its digits and separators.
C6_OctalExcluded ==
    (Offered("separate_number_literal") /\ token_kind = "INT_NUMBER" /\ RawPrefix = <<"0", "o">>)
        => ~assist.applicable

C6_Witness ==
    /\ Offered("separate_number_literal") /\ token_kind = "INT_NUMBER" /\ Covered
    /\ RawPrefix = <<"0", "o">>
    /\ Len(Stripped(RawDigits)) > 3 /\ HasSeparator(RawDigits)
    /\ RawDigits # separate_number(RawDigits, 3)
    /\ ~assist.applicable

\* C7: when separate_number_literal is applicable, its edit is one replacement of
\* the whole token by prefix + separate_number(digits, g) + suffix, g being 3 for
\* Decimal, 4 for Hex, 8 for Binary, and its target is the whole token.
C7_EditIsRegrouping ==
    (Offered("separate_number_literal") /\ assist.applicable) =>
        /\ GroupSize \in {3, 4, 8}
        /\ assist.target = Some(token_range)
        /\ assist.edits = <<[delete |-> token_range,
                             insert |-> RawPrefix \o separate_number(RawDigits, GroupSize) \o RawSuffix]>>
        /\ Stripped(assist.edits[1].insert) = Stripped(TokenText)

C7_Witness ==
    /\ Offered("separate_number_literal") /\ assist.applicable
    /\ RawPrefix = <<"0", "x">> /\ suffix_len > 0 /\ HasSeparator(RawDigits)
    /\ token_range[1] < selection[1] /\ selection[1] < selection[2] /\ selection[2] < token_range[2]

\* C8: remove_digit_separators is applicable exactly when the selection is covered
\* by an integer literal token whose text has a separator; its target is then the
\* whole token, wherever the selection lies in it.
C8_RemoveApplicability ==
    Offered("remove_digit_separators") =>
        /\ assist.applicable <=> (token_kind = "INT_NUMBER" /\ Covered /\ HasSeparator(TokenText))
        /\ assist.applicable => assist.target = Some(token_range)

C8_Witness ==
    /\ Offered("remove_digit_separators") /\ assist.applicable
    /\ token_range[1] < selection[1] /\ selection[1] < selection[2] /\ selection[2] < token_range[2]

\* C9: remove_digit_separators changes only the digits: the replacement text is
\* prefix + strip(digits) + suffix, and applying the edit leaves the buffer
\* outside the token as it was.
C9_OnlyDigitsChange ==
    [][(Offered("remove_digit_separators") /\ assist.applicable) =>
            /\ assist.edits[1].insert = RawPrefix \o Stripped(RawDigits) \o RawSuffix
            /\ pc' = "applied" =>
                  buffer' = SubSeq(buffer, 1, token_range[1])
                            \o RawPrefix \o Stripped(RawDigits) \o RawSuffix
                            \o SubSeq(buffer, token_range[2] + 1, Len(buffer))]_vars

C9_Witness ==
    /\ mode = "assist" /\ pc = "applied" /\ handler = "remove_digit_separators"
    /\ suffix_len > 0 /\ RawPrefix = <<"0", "b">> /\ Len(RawDigits) > 2
    /\ buffer = Pre \o TokenText \o Post

\* C10: split_string is not applicable when the selection is not inside the range
\* between the quotes of a STRING token: it then gives no assist and no edit.
C10_OutsideQuotesNotApplicable ==
    (/\ Offered("split_string")
     /\ ~(/\ token_kind = "STRING"
          /\ token_range[1] + 1 <= selection[1]
          /\ selection[2] <= token_range[2] - 1))
        => assist = NoAssist

C10_Witness ==
    /\ Offered("split_string") /\ token_kind = "STRING"
    /\ selection[1] = token_range[1] /\ selection[1] < selection[2]
    /\ selection[2] < token_range[2]
    /\ assist = NoAssist

\* C11 (as claimed): split_string is applicable only when the selection lies
\* strictly inside the interior between the quotes: a selection touching a quote
\* is not applicable.
C11_StrictlyInside ==
    (Offered("split_string") /\ assist.applicable)
        => (token_range[1] + 1 < selection[1] /\ selection[2] < token_range[2] - 1)

\* C11 (amended): split_string is applicable exactly when the selection is
\* contained in the range between the quotes of a STRING token, its two ends
\* included: a selection touching a quote is applicable, one crossing it is not.
C11_InsideInclusive ==
    Offered("split_string") =>
        (assist.applicable <=>
            (/\ token_kind = "STRING"
             /\ token_range[1] + 1 <= selection[1]
             /\ selection[2] <= token_range[2] - 1))

C11_Witness ==
    /\ Offered("split_string") /\ assist.applicable
    /\ selection = <<token_range[1] + 1, token_range[1] + 1>>
    /\ token_range[2] - token_range[1] > 3

\* C12: wrapper decision of split_string: no wrapper is inserted exactly when the
\* enclosing node is a macro call whose path text is concat; in every other case
\* the edit inserts both concat!( at the token start and ) at the token end, and
\* never one of the two without the other.
WrapperOpen == \E i \in DOMAIN assist.edits :
    assist.edits[i] = [delete |-> <<token_range[1], token_range[1]>>, insert |-> CONCAT_MACRO]
WrapperClose == \E i \in DOMAIN assist.edits :
    assist.edits[i] = [delete |-> <<token_range[2], token_range[2]>>, insert |-> <<")">>]

C12_WrapperDecision ==
    (Offered("split_string") /\ assist.applicable) =>
        /\ WrapperOpen <=> WrapperClose
        /\ ~WrapperOpen <=> (ancestor.kind = "MACRO_CALL" /\ ancestor.path.some /\ ancestor.path.val = "concat")
        /\ \A i \in DOMAIN assist.edits :
              (assist.edits[i].insert = CONCAT_MACRO \/ assist.edits[i].insert = <<")">>)
                  => (WrapperOpen /\ WrapperClose)

C12_Witness ==
    /\ Offered("split_string") /\ assist.applicable
    /\ ancestor.kind = "MACRO_CALL" /\ ancestor.path.some /\ ancestor.path.val = "println"
    /\ WrapperOpen /\ WrapperClose
    /\ selection[1] < selection[2]

\* C13: the split_string edit is value-preserving: it only inserts (one boundary
\* text at selection.start, a second at selection.end exactly when the selection
\* is not empty, and the optional wrapper texts), so the new buffer is the old one
\* with these texts put in, the fragments are the pieces of the old content in
\* order, and the target is the whole string token.
Piece(from, to) == SubSeq(buffer, from + 1, to)
BoundaryAtoms == {i \in DOMAIN assist.edits : assist.edits[i].insert = SPLIT_SEPARATOR}

C13_ValuePreserving ==
    [][(Offered("split_string") /\ assist.applicable) =>
            /\ \A i \in DOMAIN assist.edits : assist.edits[i].delete[1] = assist.edits[i].delete[2]
            /\ assist.target = Some(token_range)
            /\ {assist.edits[i].delete[1] : i \in BoundaryAtoms} = {selection[1], selection[2]}
            /\ Cardinality(BoundaryAtoms) = (IF selection[1] = selection[2] THEN 1 ELSE 2)
            /\ Len(assist.edits) = Cardinality(BoundaryAtoms) + (IF WrapperOpen THEN 2 ELSE 0)
            /\ pc' = "applied" =>
                  buffer' = Piece(0, token_range[1])
                            \o (IF WrapperOpen THEN CONCAT_MACRO ELSE <<>>)
                            \o Piece(token_range[1], selection[1])
                            \o SPLIT_SEPARATOR
                            \o Piece(selection[1], selection[2])
                            \o (IF selection[1] # selection[2] THEN SPLIT_SEPARATOR ELSE <<>>)
                            \o Piece(selection[2], token_range[2])
                            \o (IF WrapperOpen THEN <<")">> ELSE <<>>)
                            \o Piece(token_range[2], Len(buffer))]_vars

C13_Witness ==
    /\ mode = "assist" /\ pc = "applied" /\ handler = "split_string"
    /\ selection[1] < selection[2] /\ WrapperOpen
    /\ SubSeq(buffer, 1, Len(Pre) + Len(CONCAT_MACRO)) = Pre \o CONCAT_MACRO
    /\ buffer[Len(buffer) - Len(Post)] = ")"

HasTarget(it) == it.action.target.some
TargetLen(it) == it.action.target.val[2] - it.action.target.val[1]

C15_SortedByTarget ==
    (mode = "resolve" /\ pc = "returned") =>
        /\ Len(resolved) = Len(found)
        /\ {resolved[i] : i \in DOMAIN resolved} = {found[i] : i \in DOMAIN found}
        /\ \A i, j \in DOMAIN resolved : i < j =>
              /\ ~(~HasTarget(resolved[i]) /\ HasTarget(resolved[j]))
              /\ (HasTarget(resolved[i]) /\ HasTarget(resolved[j]))
                    => TargetLen(resolved[i]) <= TargetLen(resolved[j])
              /\ (HasTarget(resolved[i]) /\ HasTarget(resolved[j])
                    /\ TargetLen(resolved[i]) = TargetLen(resolved[j]))
                    => resolved[i].id < resolved[j].id
              /\ (~HasTarget(resolved[i]) /\ ~HasTarget(resolved[j]))
                    => resolved[i].id < resolved[j].id

C15_Witness ==
    /\ mode = "resolve" /\ pc = "returned"
    /\ Len(found) = 4 /\ ~HasTarget(found[1]) /\ HasTarget(found[2])
    /\ HasTarget(found[3]) /\ HasTarget(found[4])
    /\ TargetLen(found[2]) > TargetLen(found[3]) /\ TargetLen(found[2]) = TargetLen(found[4])
    /\ resolved = <<found[3], found[2], found[4], found[1]>>

\* C16 (as claimed): a handler invocation writes nothing to the standard output,
\* whether it ends applicable or not.
C16_NoOutput ==
    mode = "assist" => stdout = <<>>

\* the digits of the replacement text of separate_number_literal
NewDigits ==
    SubSeq(assist.edits[1].insert, Len(RawPrefix) + 1, Len(assist.edits[1].insert) - suffix_len)

\* C17 (as claimed): in the grouped digits only the last (rightmost) group may
\* have fewer than groupSize digits; no group to its left is shorter.
C17_OnlyLastShort ==
    /\ Returned =>
          \A k \in 1..(Len(Split(sn_result)) - 1) : Len(Split(sn_result)[k]) >= sn_every
    /\ (Offered("separate_number_literal") /\ assist.applicable) =>
          \A k \in 1..(Len(Split(NewDigits)) - 1) : Len(Split(NewDigits)[k]) >= GroupSize

\* C17 (amended): in the grouped digits only the first (leftmost) group may have
\* fewer than groupSize digits; no group to its right is shorter.
C17_OnlyFirstShort ==
    /\ Returned =>
          \A k \in 2..Len(Split(sn_result)) : Len(Split(sn_result)[k]) >= sn_every
    /\ (Offered("separate_number_literal") /\ assist.applicable) =>
          \A k \in 2..Len(Split(NewDigits)) : Len(Split(NewDigits)[k]) >= GroupSize

C17_Witness ==
    /\ Offered("separate_number_literal") /\ assist.applicable
    /\ GroupSize = 8
    /\ Len(Split(NewDigits)) = 2
    /\ Len(Split(NewDigits)[1]) < GroupSize

\* C18: literal decomposition: for an integer literal identify_number_literal
\* returns parts whose prefix, digits and suffix written one after the other are
\* the token text; the prefix is recognised only when the first two characters of
\* the non-suffix text are the lowercase 0x, 0b or 0o, any other text (shorter
\* than 2 characters, uppercase prefix) is Decimal with no prefix; the digits keep
\* their '_' characters; a literal that is not an integer yields no result.
C18_Decomposition ==
    (Offered("separate_number_literal") /\ Covered /\ token_kind \in LiteralKinds) =>
        IF token_kind # "INT_NUMBER" THEN ~identified.some
        ELSE /\ identified.some
             /\ LET n == identified.val
                    lower == /\ Len(RawNonSuffix) >= 2
                             /\ SubSeq(RawNonSuffix, 1, 2) \in {<<"0", "x">>, <<"0", "b">>, <<"0", "o">>}
                IN /\ NumberLiteral_fmt(n) = TokenText
                   /\ n.prefix.some <=> lower
                   /\ lower =>
                        /\ n.prefix.val = SubSeq(RawNonSuffix, 1, 2)
                        /\ n.number_type =
                              (IF RawNonSuffix[2] = "x" THEN "PrefixHex"
                               ELSE IF RawNonSuffix[2] = "b" THEN "PrefixBinary"
                               ELSE "PrefixOctal")
                        /\ n.text = SubSeq(RawNonSuffix, 3, Len(RawNonSuffix))
                   /\ ~lower => n.number_type = "Decimal" /\ n.text = RawNonSuffix
                   /\ n.suffix.some <=> suffix_len > 0
                   /\ n.suffix.some => n.suffix.val = RawSuffix

C18_Witness ==
    /\ Offered("separate_number_literal") /\ Covered /\ token_kind = "INT_NUMBER"
    /\ Len(RawNonSuffix) >= 4 /\ SubSeq(RawNonSuffix, 1, 2) = <<"0", "X">>
    /\ suffix_len > 0
    /\ identified.some
    /\ identified.val.number_type = "Decimal"
    /\ HasSeparator(identified.val.text)

\* the text of the token in a buffer, and a literal text with its digits grouped
\* for its kind (Decimal 3, Hex 4, Binary 8, Octal: not grouped)
TokenTextOf(buf, range) == SubSeq(buf, range[1] + 1, range[2])
GroupedOf(t) ==
    LET non_suffix == SubSeq(t, 1, Len(t) - suffix_len)
        p == IF Len(non_suffix) >= 2 /\ non_suffix[1] = "0" /\ non_suffix[2] \in {"x", "b", "o"}
             THEN 2 ELSE 0
        g == IF p = 0 THEN 3
             ELSE IF non_suffix[2] = "x" THEN 4
             ELSE IF non_suffix[2] = "b" THEN 8
             ELSE 0
    IN IF g = 0 THEN Stripped(t)
       ELSE SubSeq(non_suffix, 1, p)
            \o separate_number(SubSeq(non_suffix, p + 1, Len(non_suffix)), g)
            \o SubSeq(t, Len(t) - suffix_len + 1, Len(t))

\* C19: fixed point after one application: on an integer literal, once the edit
\* of separate_number_literal is applied the assist is not applicable to the
\* resulting literal; applying remove_digit_separators to that result gives the
\* token text of the original literal without its separators (no step changes
\* the stripped form or the grouped form of the literal); and the token text
\* changes only when an edit is applied, and is then the stripped form or the
\* grouped form of the literal.
C19_FixedPoint ==
    [][(mode = "assist" /\ token_kind = "INT_NUMBER") =>
            LET old == TokenTextOf(buffer, token_range)
                new == TokenTextOf(buffer', token_range')
                stripped == Stripped(old)
                grouped == GroupedOf(old)
            IN /\ new # old =>
                     (pc' = "applied" /\ Stripped(new) = stripped /\ GroupedOf(new) = grouped)
               /\ (last_applied' = "separate_number_literal" /\ pc' = "offered"
                       /\ handler' = "separate_number_literal") => ~assist'.applicable
               /\ (last_applied = "separate_number_literal" /\ pc = "offered"
                       /\ handler = "remove_digit_separators" /\ pc' = "applied") =>
                     new = stripped
               /\ (pc = "offered" /\ handler = "separate_number_literal" /\ pc' = "applied") =>
                     new = grouped
               /\ pc' = "applied" => new \in {stripped, grouped}]_vars

C19_Witness ==
    /\ Offered("separate_number_literal") /\ Covered /\ token_kind = "INT_NUMBER"
    /\ last_applied = "separate_number_literal"
    /\ HasSeparator(RawDigits) /\ TokenText = GroupedOf(TokenText)
    /\ suffix_len > 0
    /\ ~assist.applicable

====
